---- MODULE Spec2Model ----
(***************************************************************************)
(* Skladnik (KDE Sokoban): the move-resolution engine of PlayField.cpp.    *)
(*                                                                         *)
(* PlayField's fields are the variables; every event handler of            *)
(* PlayField.cpp is one action.  A handler is written as an operator from  *)
(* a state record to a state record, so that nested calls (step ->         *)
(* startMoving -> timerEvent -> stopMoving) are function composition, and  *)
(* an action installs the record its handler returns.                      *)
(*                                                                         *)
(* LevelMap, Move, MoveSequence, History and PathFinder are classes of the *)
(* repository whose sources are not among the files at hand; they are      *)
(* modelled from their description in spec.md sections 3 and 4 and from    *)
(* the way PlayField.cpp calls them.                                       *)
(***************************************************************************)
EXTENDS Integers, Sequences, FiniteSets, TLC

VARIABLES
    collection,          \* levelMap_->collection(): which collection
    level,               \* levelMap_->level()
    completedLevels,     \* levelMap_->completedLevels()
    xpos, ypos,          \* levelMap_->xpos(), ypos(): the token
    objects,             \* cells of levelMap_->map() that hold an object
    totalMoves,          \* levelMap_->totalMoves(): the step counter
    totalPushes,         \* levelMap_->totalPushes(): the push counter
    past,                \* history_: the done-list, oldest first
    future,              \* history_: the redo side, next to redo first
    moveSequence_,       \* the current Move Sequence Player, or Null
    moveInProgress_,
    timers,              \* number of ids in the list `timers`
    animDelay_,
    lastMousePosition_,  \* the square under lastMousePosition_
    wheelDelta_,
    build,               \* "any" | "ndebug" | "aborted": see Aborted
    lastEnd,             \* history variable: how the last playback ended
    lastOp,              \* history variable: what the last request met
    bookmark             \* the Bookmark object handed to setBookmark

vars == <<collection, level, completedLevels, xpos, ypos, objects, totalMoves, totalPushes,
          past, future, moveSequence_, moveInProgress_, timers, animDelay_,
          lastMousePosition_, wheelDelta_, build, lastEnd, lastOp,
          bookmark>>

----------------------------------------------------------------------------
(* Bounds of the model *)

\* Map::MAX_X and Map::MAX_Y (PlayField.cpp:378, 394), scaled down: squares
\* are <<x, y>> with 0 <= x <= MAX_X and 0 <= y <= MAX_Y.
MAX_X == 4
MAX_Y == 1

\* The most Moves History may hold while a request that commits one is taken.
MaxHist == 1

\* The step and push counters stay within -MaxCount..MaxCount.
MaxCount == 2

\* The longest history text a Bookmark is set with.
MaxSaved == 4

\* An absent object (a null pointer) is the empty sequence, a present one the
\* sequence of its record.
Null == <<>>
Some(r) == <<r>>
The(o) == o[1]
NoSquare == <<-1, -1>>

Sgn(n) == IF n > 0 THEN 1 ELSE IF n < 0 THEN -1 ELSE 0
Abs(n) == IF n < 0 THEN -n ELSE n
Max(a, b) == IF a > b THEN a ELSE b

Squares == (0..MAX_X) \X (0..MAX_Y)

----------------------------------------------------------------------------
(* The level collection: static data supplied by the collection source.    *)
(* A level names its floor cells (every other cell is a wall), its target  *)
(* cells, its objects, the token's cell and whether it parsed.             *)
(*   level 0:   _ @ $ . _     level 1 (broken):     level 2:   @ $ _ _ $   *)
(*              _ # # # #        @ _ _ # #                     . # # # #   *)
(*                               _ # # # #                                 *)

Collection ==
    << [floor   |-> {<<0,0>>, <<1,0>>, <<2,0>>, <<3,0>>, <<4,0>>,
                     <<0,1>>},
        targets |-> {<<3,0>>},
        objects |-> {<<2,0>>},
        token   |-> <<1,0>>,
        good    |-> TRUE],
       [floor   |-> {<<0,0>>, <<1,0>>, <<2,0>>, <<0,1>>},
        targets |-> {},
        objects |-> {},
        token   |-> <<0,0>>,
        good    |-> FALSE],
       [floor   |-> {<<0,0>>, <<1,0>>, <<2,0>>, <<3,0>>, <<4,0>>,
                     <<0,1>>},
        targets |-> {<<0,1>>},
        objects |-> {<<1,0>>, <<4,0>>},
        token   |-> <<0,0>>,
        good    |-> TRUE] >>

\* A second collection, of one level:   @ $ . # #
\*                                      # # # # #
OtherCollection ==
    << [floor   |-> {<<0,0>>, <<1,0>>, <<2,0>>},
        targets |-> {<<2,0>>},
        objects |-> {<<1,0>>},
        token   |-> <<0,0>>,
        good    |-> TRUE] >>

\* The collections by their id; PlayField starts in collection 0.
Collections == <<Collection, OtherCollection>>

Levels(s) == Collections[s.collection + 1]

noOfLevels == Len(Collection)

\* levelMap_->noOfLevels() for the active collection.
levelCount(s) == Len(Levels(s))

\* levelMap_->completedLevels(): kept by the collection, not changed by
\* PlayField; the player has solved level 0 only.
FirstUnsolved == Len(Collection) - 2

LevelData(s) == Levels(s)[s.level + 1]

----------------------------------------------------------------------------
(* Grid Model and Level Map *)

hasCoord(c) == c[1] >= 0 /\ c[1] <= MAX_X /\ c[2] >= 0 /\ c[2] <= MAX_Y

isWall(s, c) == c \notin LevelData(s).floor

hasObject(s, c) == c \in s.objects

\* A cell the token or an object may move onto.
empty(s, c) == hasCoord(c) /\ ~isWall(s, c) /\ ~hasObject(s, c)

completed(s) == \A t \in LevelData(s).targets : hasObject(s, t)

goodLevel(s) == LevelData(s).good

Token(s) == <<s.xpos, s.ypos>>

\* The direction from the token to cell c, one unit per axis.
Toward(s, c) == <<Sgn(c[1] - s.xpos), Sgn(c[2] - s.ypos)>>

Plus(c, d) == <<c[1] + d[1], c[2] + d[2]>>
Minus(c, d) == <<c[1] - d[1], c[2] - d[2]>>

\* LevelMap::step(x, y): whether it succeeds, and the map afterwards.
CanStep(s, c) == empty(s, c)

DoStep(s, c) ==
    [s EXCEPT !.xpos = c[1], !.ypos = c[2], !.totalMoves = @ + 1]

\* LevelMap::push(x, y): the cell holds an object and the cell beyond it, in
\* the same direction, is free; the object moves, then the token.
CanPush(s, c) == hasObject(s, c) /\ empty(s, Plus(c, Toward(s, c)))

DoPush(s, c) ==
    [s EXCEPT !.objects = (@ \ {c}) \cup {Plus(c, Toward(s, c))},
              !.xpos = c[1], !.ypos = c[2],
              !.totalPushes = @ + 1]

\* The inverse primitives Move::undo and an undo playback apply: the token
\* goes back by d; for a push the object in front of it comes back with it.
CanUnstep(s, d) == empty(s, Minus(Token(s), d))

DoUnstep(s, d) ==
    [s EXCEPT !.xpos = @ - d[1], !.ypos = @ - d[2], !.totalMoves = @ - 1]

CanUnpush(s, d) ==
    hasObject(s, Plus(Token(s), d)) /\ empty(s, Minus(Token(s), d))

DoUnpush(s, d) ==
    [s EXCEPT !.objects = (@ \ {Plus(Token(s), d)}) \cup {Token(s)},
              !.xpos = @ - d[1], !.ypos = @ - d[2],
              !.totalPushes = @ - 1]

\* LevelMap::level(n): loads level n, resets the grid and the counters.
LoadLevel(s, n) ==
    [s EXCEPT !.level = n,
              !.xpos = Levels(s)[n + 1].token[1],
              !.ypos = Levels(s)[n + 1].token[2],
              !.objects = Levels(s)[n + 1].objects,
              !.totalMoves = 0,
              !.totalPushes = 0]

\* What the claims call the Level Map state.
MapState(s) ==
    [xpos |-> s.xpos, ypos |-> s.ypos, objects |-> s.objects,
     totalMoves |-> s.totalMoves, totalPushes |-> s.totalPushes]

----------------------------------------------------------------------------
(* Move: origin, the last recorded position and the elementary             *)
(* displacements [d, push] recorded so far.  PlayField::step and           *)
(* PlayField::push hand Move::step and Move::push the END of a straight    *)
(* run, so a call records one unit displacement per cell of the run.       *)

NewMove(ox, oy) ==
    [ox |-> ox, oy |-> oy, x |-> ox, y |-> oy, disp |-> <<>>,
     finished |-> FALSE]

Record(m, x, y, isPush) ==
    LET d == <<Sgn(x - m.x), Sgn(y - m.y)>>
        k == Max(Abs(x - m.x), Abs(y - m.y))
    IN  [m EXCEPT !.disp = @ \o [i \in 1..k |-> [d |-> d, push |-> isPush]],
                  !.x = x, !.y = y]

MoveStep(m, x, y) == Record(m, x, y, FALSE)

MovePush(m, x, y) == Record(m, x, y, TRUE)

MoveFinish(m) == [m EXCEPT !.finished = TRUE]

\* One elementary displacement applied to the Level Map, forward or inverted.
\* A displacement the map does not allow changes nothing.
ApplyDisp(s, e) ==
    LET c == Plus(Token(s), e.d)
    IN  IF e.push
        THEN IF CanPush(s, c) THEN DoPush(s, c) ELSE s
        ELSE IF CanStep(s, c) THEN DoStep(s, c) ELSE s

UnapplyDisp(s, e) ==
    IF e.push
    THEN IF CanUnpush(s, e.d) THEN DoUnpush(s, e.d) ELSE s
    ELSE IF CanUnstep(s, e.d) THEN DoUnstep(s, e.d) ELSE s

RECURSIVE UndoFrom(_, _, _)
UndoFrom(m, s, i) ==
    IF i = 0 THEN s ELSE UndoFrom(m, UnapplyDisp(s, m.disp[i]), i - 1)

\* Move::undo(LevelMap*): the displacements in reverse.
MoveUndo(m, s) == UndoFrom(m, s, Len(m.disp))

----------------------------------------------------------------------------
(* History *)

HistoryAdd(s, m) == [s EXCEPT !.past = Append(@, m), !.future = <<>>]

HistoryClear(s) == [s EXCEPT !.past = <<>>, !.future = <<>>]

\* The Move Sequence Player: a cursor over one Move.  kind is a history
\* field telling a first playback ("play") from a redo.
NewSequence(m, isUndo, kind) ==
    [move |-> m, pos |-> 0, undo |-> isUndo, kind |-> kind]

\* History::deferUndo / deferRedo: the history afterwards, and the player
\* handed to startMoving (Null when there is nothing to undo or redo).
AfterDeferUndo(s) ==
    IF s.past = <<>> THEN s
    ELSE [s EXCEPT !.past = SubSeq(@, 1, Len(@) - 1),
                   !.future = <<s.past[Len(s.past)]>> \o @]

DeferUndo(s) ==
    IF s.past = <<>> THEN Null
    ELSE Some(NewSequence(s.past[Len(s.past)], TRUE, "undo"))

AfterDeferRedo(s) ==
    IF s.future = <<>> THEN s
    ELSE [s EXCEPT !.future = Tail(@), !.past = Append(@, Head(s.future))]

DeferRedo(s) ==
    IF s.future = <<>> THEN Null
    ELSE Some(NewSequence(Head(s.future), FALSE, "redo"))

----------------------------------------------------------------------------
(* History text encoding and the Bookmark record.  A Move is written as    *)
(* one character per elementary displacement, its steps first, then "+"    *)
(* and its pushes if it has any, then "."; the done-list comes first and   *)
(* "-" separates it from the redo side.                                    *)

DirChar(d) ==
    CASE d = <<0, -1>> -> "u"
      [] d = <<0, 1>>  -> "d"
      [] d = <<-1, 0>> -> "l"
      [] d = <<1, 0>>  -> "r"
      [] OTHER         -> "?"

DirChars == {"u", "d", "l", "r"}

CharDir(c) ==
    CASE c = "u" -> <<0, -1>>
      [] c = "d" -> <<0, 1>>
      [] c = "l" -> <<-1, 0>>
      [] c = "r" -> <<1, 0>>

IsStep(e) == ~e.push
IsPush(e) == e.push

Chars(es) == [i \in 1..Len(es) |-> DirChar(es[i].d)]

PushChars(es) == IF es = <<>> THEN <<>> ELSE <<"+">> \o Chars(es)

\* Move::save
MoveSave(m) ==
    Chars(SelectSeq(m.disp, IsStep)) \o PushChars(SelectSeq(m.disp, IsPush))
        \o <<".">>

RECURSIVE MovesSave(_)
MovesSave(ms) ==
    IF ms = <<>> THEN <<>> ELSE MoveSave(Head(ms)) \o MovesSave(Tail(ms))

\* History::save
HistorySave(s) == MovesSave(s.past) \o <<"-">> \o MovesSave(s.future)

\* Move::redo(LevelMap*): the displacements in order, each one checked by
\* the Level Map; Null if the map refuses one.
Legal(s, e) ==
    IF e.push THEN CanPush(s, Plus(Token(s), e.d))
    ELSE CanStep(s, Plus(Token(s), e.d))

RECURSIVE RedoFrom(_, _, _)
RedoFrom(m, s, i) ==
    IF i > Len(m.disp) THEN Some(s)
    ELSE IF Legal(s, m.disp[i])
         THEN RedoFrom(m, ApplyDisp(s, m.disp[i]), i + 1)
         ELSE Null

MoveRedo(m, s) == RedoFrom(m, s, 1)

\* The Move m closed by "." while reading the done-list: it is replayed
\* against the map (r is what that gave) and joins the done-list; on the
\* redo side it only joins History.
Replayed(r, m) ==
    IF r = Null THEN Null
    ELSE Some([The(r) EXCEPT !.past = Append(@, MoveFinish(m))])

Closed(s, m, redoSide) ==
    IF m.disp = <<>> THEN Null
    ELSE IF redoSide
         THEN Some([s EXCEPT !.future = Append(@, MoveFinish(m))])
         ELSE Replayed(MoveRedo(m, s), m)

\* History::load reading text: s is the map and History so far, m the Move
\* being read, pushing whether its "+" was met, redoSide whether "-" was.
\* Null if the text is not a history or does not replay.
RECURSIVE LoadFrom(_, _, _, _, _), LoadOn(_, _, _)
LoadFrom(text, s, m, pushing, redoSide) ==
    IF text = <<>>
    THEN IF redoSide /\ m.disp = <<>> /\ ~pushing THEN Some(s) ELSE Null
    ELSE CASE Head(text) \in DirChars ->
                LoadFrom(Tail(text), s,
                         Record(m, m.x + CharDir(Head(text))[1],
                                m.y + CharDir(Head(text))[2], pushing),
                         pushing, redoSide)
           [] Head(text) = "+" ->
                IF pushing THEN Null
                ELSE LoadFrom(Tail(text), s, m, TRUE, redoSide)
           [] Head(text) = "." ->
                LoadOn(Tail(text), Closed(s, m, redoSide),
                       [x |-> m.x, y |-> m.y, redoSide |-> redoSide])
           [] Head(text) = "-" ->
                IF redoSide \/ m.disp # <<>> \/ pushing THEN Null
                ELSE LoadFrom(Tail(text), s, m, FALSE, TRUE)
           [] OTHER -> Null

LoadOn(text, r, at) ==
    IF r = Null THEN Null
    ELSE LoadFrom(text, The(r), NewMove(at.x, at.y), FALSE, at.redoSide)

HistoryLoad(s, text) ==
    LoadFrom(text, HistoryClear(s), NewMove(s.xpos, s.ypos), FALSE, FALSE)

\* Bookmark::set(collection id, level, moves, History*)
BookmarkSet(s) ==
    [collection |-> s.collection, level |-> s.level,
     moves |-> s.totalMoves, data |-> HistorySave(s)]

\* Bookmark::goTo(LevelMap*, History*): the state the replay gives, or Null
\* (false is returned, map and History untouched) if the text does not
\* replay or does not give the recorded number of moves.
Counted(r, bm) ==
    IF r # Null /\ The(r).totalMoves = bm.moves THEN r ELSE Null

BookmarkGoTo(s, bm) == Counted(HistoryLoad(s, bm.data), bm)

----------------------------------------------------------------------------
(* Move Sequence Player *)

\* MoveSequence::next() for the player ms: applies one displacement,
\* advances the cursor and tells whether more remain.  Returns the state
\* and that answer.
NextOf(s, ms) ==
    IF ms.pos >= Len(ms.move.disp)
    THEN [s |-> s, more |-> FALSE]
    ELSE [s    |-> [(IF ms.undo
                     THEN UnapplyDisp(s, ms.move.disp[Len(ms.move.disp) - ms.pos])
                     ELSE ApplyDisp(s, ms.move.disp[ms.pos + 1]))
                        EXCEPT !.moveSequence_ = Some([ms EXCEPT !.pos = @ + 1])],
          more |-> ms.pos + 1 < Len(ms.move.disp)]

MSNext(s) == NextOf(s, The(s.moveSequence_))

----------------------------------------------------------------------------
(* Path Search: breadth first from the target over free cells; the path    *)
(* from the token follows strictly decreasing distance, the first          *)
(* neighbour in the order up, down, left, right winning a tie.             *)

NeighbourOrder == << <<0, -1>>, <<0, 1>>, <<-1, 0>>, <<1, 0>> >>

Neighbours(c) == {Plus(c, NeighbourOrder[i]) : i \in 1..4}

\* Layers(s, seen, ls): ls grown by the free cells next to its last layer
\* and not seen yet, until none is left.
RECURSIVE Layers(_, _, _), Grow(_, _, _, _)
Layers(s, seen, ls) ==
    Grow(s, seen, ls,
         {c \in UNION {Neighbours(f) : f \in ls[Len(ls)]} :
             empty(s, c) /\ c \notin seen})

Grow(s, seen, ls, nxt) ==
    IF nxt = {} THEN ls ELSE Layers(s, seen \cup nxt, Append(ls, nxt))

\* DistanceLayers(s, t)[i] holds the free cells at distance i - 1 from t.
DistanceLayers(s, t) == Layers(s, {t}, <<{t}>>)

LayerOf(ls, c) ==
    IF \E i \in 1..Len(ls) : c \in ls[i]
    THEN CHOOSE i \in 1..Len(ls) : c \in ls[i]
    ELSE 0

\* The first neighbour of c, in NeighbourOrder, that lies one layer down.
FirstDown(ls, c, i) ==
    CHOOSE j \in 1..4 :
        /\ Plus(c, NeighbourOrder[j]) \in ls[i - 1]
        /\ \A h \in 1..(j - 1) : Plus(c, NeighbourOrder[h]) \notin ls[i - 1]

RECURSIVE Descend(_, _, _, _), DescendTo(_, _, _, _)
Descend(ls, c, i, m) ==
    IF i = 1 THEN m
    ELSE DescendTo(ls, Plus(c, NeighbourOrder[FirstDown(ls, c, i)]), i, m)

DescendTo(ls, n, i, m) == Descend(ls, n, i - 1, MoveStep(m, n[1], n[2]))

PathFrom(s, ls, i) ==
    IF i = 0 THEN Null
    ELSE Some(MoveFinish(Descend(ls, Token(s), i, NewMove(s.xpos, s.ypos))))

PathIn(s, ls) == PathFrom(s, ls, LayerOf(ls, Token(s)))

\* PathFinder::search(map, x, y): a finished Move of steps, or Null.
Search(s, t) ==
    IF ~empty(s, t) \/ t = Token(s) THEN Null
    ELSE PathIn(s, DistanceLayers(s, t))

----------------------------------------------------------------------------
(* PlayField *)

\* The state as one record, and the action that installs a record.  The
\* field failed is not part of the state: while a handler runs it keeps the
\* state in which the handler's first assertion failed, if one did.
Cur ==
    [collection |-> collection, level |-> level, completedLevels |-> completedLevels,
     xpos |-> xpos, ypos |-> ypos, objects |-> objects,
     totalMoves |-> totalMoves, totalPushes |-> totalPushes,
     past |-> past, future |-> future,
     moveSequence_ |-> moveSequence_, moveInProgress_ |-> moveInProgress_,
     timers |-> timers, animDelay_ |-> animDelay_,
     lastMousePosition_ |-> lastMousePosition_, wheelDelta_ |-> wheelDelta_,
     build |-> build, lastEnd |-> lastEnd, lastOp |-> lastOp,
     bookmark |-> bookmark, failed |-> Null, shown |-> 0]

Install(s) ==
    /\ collection' = s.collection
    /\ level' = s.level
    /\ completedLevels' = s.completedLevels
    /\ xpos' = s.xpos
    /\ ypos' = s.ypos
    /\ objects' = s.objects
    /\ totalMoves' = s.totalMoves
    /\ totalPushes' = s.totalPushes
    /\ past' = s.past
    /\ future' = s.future
    /\ moveSequence_' = s.moveSequence_
    /\ moveInProgress_' = s.moveInProgress_
    /\ timers' = s.timers
    /\ animDelay_' = s.animDelay_
    /\ lastMousePosition_' = s.lastMousePosition_
    /\ wheelDelta_' = s.wheelDelta_
    /\ build' = s.build
    /\ lastEnd' = s.lastEnd
    /\ lastOp' = s.lastOp
    /\ bookmark' = s.bookmark

\* A failed assert(): a build with assertions aborts the process there, a
\* build with NDEBUG goes on.  The handlers compute how the NDEBUG build
\* goes on (and the build is then known to be an NDEBUG one) and keep in
\* failed the state in which the other build has aborted.
Aborted(s) == [s EXCEPT !.build = "aborted"]

PassedOver(s) ==
    [s EXCEPT !.build = "ndebug",
              !.failed = IF @ = Null THEN Some(Aborted(s)) ELSE @]

\* assert(ok) in state s.
Asserting(ok, s) == IF ok THEN s ELSE PassedOver(s)

killTimers(s) == [s EXCEPT !.timers = 0]

\* stopMoving(); lastEnd notes the player it deletes: its kind and whether
\* it had applied every displacement of its Move.
stopMoving(s) ==
    [s EXCEPT !.timers = 0,
              !.moveSequence_ = Null,
              !.moveInProgress_ = FALSE,
              !.lastEnd =
                  IF s.moveSequence_ = Null THEN @
                  ELSE Some([kind      |-> The(s.moveSequence_).kind,
                             exhausted |-> The(s.moveSequence_).pos =
                                    Len(The(s.moveSequence_).move.disp)])]

\* The no-animation loop of timerEvent:
\*   while (moveSequence_->next()) if (levelMap_->completed()) break;
\* DrainOn(r) goes on from the answer r of one call of next().
\* The answer of a call is a value the loop holds: Only({f(r) : r \in {e}})
\* is f(e) with e worked out once.
Only(S) == CHOOSE x \in S : TRUE

RECURSIVE Drain(_), DrainOn(_)
Drain(s) == Only({DrainOn(r) : r \in {MSNext(s)}})

\* The loop without its break at completed().
DrainOnPastCompletion(r) == IF r.more THEN Drain(r.s) ELSE r.s

DrainOn(r) == IF r.more /\ ~completed(r.s) THEN Drain(r.s) ELSE r.s

\* showMessage(i18n("Level completed"), this, &PlayField::nextLevel): shown
\* counts the notices the handler at work has issued.
LevelCompleted(s) == [s EXCEPT !.shown = @ + 1]

\* timerEvent after more = moveSequence_->next() with the animation on.
AnimatedTick(r) ==
    IF r.more
    THEN IF completed(r.s) THEN LevelCompleted(stopMoving(r.s)) ELSE r.s
    ELSE stopMoving(r.s)

\* timerEvent after the no-animation loop and its stopMoving(): more is
\* true there.
DrainedTick(s) == IF completed(s) THEN LevelCompleted(stopMoving(s)) ELSE s

\* timerEvent whose branch for a null player leaves the timers running.
TimerBodyKeepsTimers(s) ==
    IF s.moveSequence_ = Null
    THEN [s EXCEPT !.moveInProgress_ = FALSE]
    ELSE IF s.animDelay_ # 0
         THEN AnimatedTick(MSNext(s))
         ELSE DrainedTick(stopMoving(Drain(s)))

TimerBody(s) ==
    IF s.moveSequence_ = Null
    THEN [killTimers(s) EXCEPT !.moveInProgress_ = FALSE]
    ELSE IF s.animDelay_ # 0
         THEN AnimatedTick(MSNext(s))
         ELSE DrainedTick(stopMoving(Drain(s)))

timerEvent(s) == TimerBody(Asserting(s.moveInProgress_, s))

StartBody(s, ms) ==
    timerEvent([s EXCEPT !.moveSequence_ = ms,
                         !.moveInProgress_ = TRUE,
                         !.timers = IF s.animDelay_ # 0 THEN @ + 1 ELSE @])

\* startMoving(MoveSequence *ms)
startMoving(s, ms) ==
    StartBody(Asserting(s.moveSequence_ = Null /\ ~s.moveInProgress_, s), ms)

\* startMoving(Move *m)
startMovingMove(s, m) == startMoving(s, Some(NewSequence(m, FALSE, "play")))

canMoveNow(s) == ~s.moveInProgress_ /\ goodLevel(s)

\* The direction step() and push() derive from the target (_x, _y).
Delta(s, t) == <<Sgn(t[1] - s.xpos), Sgn(t[2] - s.ypos)>>

\* while (!(x == _x && y == _y) && levelMap_->step(x + dx, y + dy))
\* step()'s loop that does not ask levelMap_->step whether it succeeded.
RECURSIVE StepLoopUnchecked(_, _, _, _)
StepLoopUnchecked(s, c, d, t) ==
    IF c # t /\ hasCoord(Plus(c, d))
    THEN StepLoopUnchecked(DoStep(s, Plus(c, d)), Plus(c, d), d, t)
    ELSE [s |-> s, c |-> c]

RECURSIVE StepLoop(_, _, _, _)
StepLoop(s, c, d, t) ==
    IF c # t /\ CanStep(s, Plus(c, d))
    THEN StepLoop(DoStep(s, Plus(c, d)), Plus(c, d), d, t)
    ELSE [s |-> s, c |-> c]

\* while (!(x == _x && y == _y) && levelMap_->push(x + dx, y + dy))
RECURSIVE PushLoop(_, _, _, _)
PushLoop(s, c, d, t) ==
    IF c # t /\ CanPush(s, Plus(c, d))
    THEN PushLoop(DoPush(s, Plus(c, d)), Plus(c, d), d, t)
    ELSE [s |-> s, c |-> c]

\* step(): the trial loop tr (the map it leaves and the cell (x, y) it
\* reaches), the Move built from it, the state after history_->add(m) and
\* m->undo(levelMap_), and the rest of step() after the loop.
StepTrial(s, t) == StepLoop(s, Token(s), Delta(s, t), t)

StepMove(s, tr) ==
    MoveFinish(MoveStep(NewMove(s.xpos, s.ypos), tr.c[1], tr.c[2]))

\* step() adding its Move without History dropping the redo side.
StepUndoneKeepsRedo(s, tr) ==
    MoveUndo(StepMove(s, tr), [tr.s EXCEPT !.past = Append(@, StepMove(s, tr))])

StepUndone(s, tr) == MoveUndo(StepMove(s, tr), HistoryAdd(tr.s, StepMove(s, tr)))

StepCommit(s, tr) ==
    IF tr.c # Token(s)
    THEN startMovingMove(StepUndone(s, tr), StepMove(s, tr))
    ELSE s

step(s, t) == IF ~canMoveNow(s) THEN s ELSE StepCommit(s, StepTrial(s, t))

\* push(): the two trial loops; tr.obj is the cell (objX, objY) where the
\* pushing began, tr.c the cell reached.
Shoved(shove, obj) == [s |-> shove.s, c |-> shove.c, obj |-> obj]

PushFrom(walk, d, t) == Shoved(PushLoop(walk.s, walk.c, d, t), walk.c)

PushTrial(s, t) ==
    PushFrom(StepLoop(s, Token(s), Delta(s, t), t), Delta(s, t), t)

\* if (objX != oldX || objY != oldY) m->step(objX, objY);
Walked(m, s, tr) ==
    IF tr.obj # Token(s) THEN MoveStep(m, tr.obj[1], tr.obj[2]) ELSE m

\* if (objX != x || objY != y) m->push(x, y);
Pushed(m, tr) == IF tr.obj # tr.c THEN MovePush(m, tr.c[1], tr.c[2]) ELSE m

PushMove(s, tr) ==
    MoveFinish(Pushed(Walked(NewMove(s.xpos, s.ypos), s, tr), tr))

\* push() without its m->undo(levelMap_).
PushNotUndone(s, tr) == HistoryAdd(tr.s, PushMove(s, tr))

PushUndone(s, tr) == MoveUndo(PushMove(s, tr), HistoryAdd(tr.s, PushMove(s, tr)))

\* push() without its test (x != oldX || y != oldY).
PushCommitUnchecked(s, tr) ==
    startMovingMove(PushUndone(s, tr), PushMove(s, tr))

\* push() that starts moving before the trial is taken back.
PushCommitFromTrial(s, tr) ==
    IF tr.c # Token(s)
    THEN startMovingMove(HistoryAdd(tr.s, PushMove(s, tr)), PushMove(s, tr))
    ELSE s

PushCommit(s, tr) ==
    IF tr.c # Token(s)
    THEN startMovingMove(PushUndone(s, tr), PushMove(s, tr))
    ELSE s

push(s, t) == IF ~canMoveNow(s) THEN s ELSE PushCommit(s, PushTrial(s, t))

undo(s) ==
    IF ~canMoveNow(s) THEN s
    ELSE startMoving(AfterDeferUndo(s), DeferUndo(s))

\* redo() that asks History for deferUndo.
redoAsUndo(s) ==
    IF ~canMoveNow(s) THEN s
    ELSE startMoving(AfterDeferUndo(s), DeferUndo(s))

redo(s) ==
    IF ~canMoveNow(s) THEN s
    ELSE startMoving(AfterDeferRedo(s), DeferRedo(s))

\* keyPressEvent: the arrow keys (with Control a run of steps to the edge,
\* with Shift a run of pushes to the edge, plain one cell) and
\* Backspace/Delete.
KeyTarget(s, key, far) ==
    CASE key = "Up"    -> <<s.xpos, IF far THEN 0 ELSE s.ypos - 1>>
      [] key = "Down"  -> <<s.xpos, IF far THEN MAX_Y ELSE s.ypos + 1>>
      [] key = "Left"  -> <<IF far THEN 0 ELSE s.xpos - 1, s.ypos>>
      [] key = "Right" -> <<IF far THEN MAX_X ELSE s.xpos + 1, s.ypos>>

keyPressEvent(s, key, mod) ==
    IF key = "Backspace"
    THEN IF mod = "Control" THEN redo(s) ELSE undo(s)
    ELSE IF mod = "Control" THEN step(s, KeyTarget(s, key, TRUE))
         ELSE IF mod = "Shift" THEN push(s, KeyTarget(s, key, TRUE))
              ELSE push(s, KeyTarget(s, key, FALSE))

mousePressEvent(s, sq) ==
    IF ~canMoveNow(s) THEN s ELSE [s EXCEPT !.lastMousePosition_ = sq]

\* The left button's branch of mouseReleaseEvent, found being what
\* pathFinder_.search returned.
\* The left button's branch without history_->add(m).
ClickWalkNoAdd(s, found) ==
    IF found # Null THEN startMovingMove(s, The(found)) ELSE s

ClickWalk(s, found) ==
    IF found # Null
    THEN startMovingMove(HistoryAdd(s, The(found)), The(found))
    ELSE s

\* mouseReleaseEvent whose left button does what the middle one does.
mouseReleaseEventLeftUndoes(s, sq, button) ==
    IF sq # s.lastMousePosition_ THEN s
    ELSE IF ~hasCoord(sq) THEN s
    ELSE CASE button = "Left" -> undo(s)
           [] button = "Middle" -> undo(s)
           [] button = "Right" -> push(s, sq)

mouseReleaseEvent(s, sq, button) ==
    IF sq # s.lastMousePosition_ THEN s
    ELSE IF ~hasCoord(sq) THEN s
    ELSE CASE button = "Left" -> ClickWalk(s, Search(s, sq))
           [] button = "Middle" -> undo(s)
           [] button = "Right" -> push(s, sq)

\* wheelEvent, w being wheelDelta_ after wheelDelta_ += e->delta().
Wheeled(s, w) ==
    IF w >= 120
    THEN redo([s EXCEPT !.wheelDelta_ = w % 120])
    ELSE IF w <= -120
         THEN undo([s EXCEPT !.wheelDelta_ = -((-w) % 120)])
         ELSE [s EXCEPT !.wheelDelta_ = w]

wheelEvent(s, delta) == Wheeled(s, s.wheelDelta_ + delta)

\* levelChange() that leaves History as it is.
levelChangeKeepsHistory(s) == stopMoving(s)

levelChange(s) == HistoryClear(stopMoving(s))

\* nextLevel() without its test of completedLevels().
nextLevelUngated(s) ==
    IF s.level + 1 >= levelCount(s) THEN s
    ELSE levelChange(LoadLevel(s, s.level + 1))

nextLevel(s) ==
    IF s.level + 1 >= levelCount(s) THEN s
    ELSE IF s.level >= s.completedLevels THEN s
    ELSE levelChange(LoadLevel(s, s.level + 1))

previousLevel(s) ==
    IF s.level <= 0 THEN s
    ELSE levelChange(LoadLevel(s, s.level - 1))

restartLevel(s) == LoadLevel(HistoryClear(stopMoving(s)), s.level)

\* levelMap_->completedLevels() of each collection.
CompletedLevels == <<FirstUnsolved, 0>>

\* LevelMap::changeCollection(c): swaps the collection and loads level 0.
LevelMapChangeCollection(s, c) ==
    LoadLevel([s EXCEPT !.collection = c,
                        !.completedLevels = CompletedLevels[c + 1]], 0)

changeCollection(s, c) ==
    IF s.collection = c THEN s
    ELSE levelChange(LevelMapChangeCollection(s, c))

changeAnim(s, num) == [s EXCEPT !.animDelay_ = num]

\* setBookmark; the collections here have ids >= 0.
setBookmark(s) ==
    IF ~goodLevel(s) THEN s
    ELSE [s EXCEPT !.bookmark = Some(BookmarkSet(s))]

\* goToBookmark after level(bm->level()) and levelChange(), r being what
\* bm->goTo returned: lastOp notes the warning "bad bookmark".
Gone(s, r) ==
    IF r = Null THEN [s EXCEPT !.lastOp = "badBookmark"] ELSE The(r)

GoneTo(s, bm) == Gone(s, BookmarkGoTo(s, bm))

goToBookmark(s, bm) == GoneTo(levelChange(LoadLevel(s, bm.level)), bm)

----------------------------------------------------------------------------
(* The inputs the events are drawn from *)

ArrowKeys == {"Up", "Down", "Left", "Right"}
Keys == ArrowKeys \cup {"Backspace"}
Modifiers == {"None", "Control", "Shift"}
Buttons == {"Left", "Middle", "Right"}
\* The squares the mouse is pressed and released on; NoSquare is a point
\* outside the map.
ClickSquares == {<<0, 1>>}
MouseSquares == ClickSquares \cup {NoSquare}
WheelDeltas == {120, -120}
\* animDelay_ is 0..3; only whether it is 0 decides anything.
AnimChoices == {0, 2}
\* The level the constructor's LevelMap starts on (the last one played).
StartLevels == 0..(noOfLevels - 1)

\* The collections changeCollection is called with.
CollectionIds == 0..(Len(Collections) - 1)
\* Bookmarks as Bookmark's constructor read them from their files: one
\* whose text is not a history, one whose history does not replay.
StoredBookmarks ==
    {[collection |-> 0, level |-> 0, moves |-> 0, data |-> <<"x">>],
     [collection |-> 0, level |-> 0, moves |-> 1, data |-> <<"u", ".", "-">>]}
\* The Bookmark objects goToBookmark can be called with; the caller has
\* made the bookmark's collection the current one.
Bookmarks ==
    {bm \in StoredBookmarks \cup {bookmark[i] : i \in 1..Len(bookmark)} :
        bm.collection = collection}

\* What an event can leave, r being what its handler computes: if an
\* assertion failed in it for the first time, the build may also be one
\* that has aborted there.
Outcomes(r) ==
    IF build = "any" /\ r.failed # Null THEN {r, The(r.failed)} ELSE {r}

Running == build # "aborted"

\* A handler starts with the history variables reset.
Begin(tag) == [Cur EXCEPT !.lastEnd = Null, !.lastOp = tag]

\* A push toward an object that cannot move: nothing is free beyond it.
BlockedPush(s, t) ==
    LET c == Plus(Token(s), Delta(s, t))
    IN  hasObject(s, c) /\ ~empty(s, Plus(c, Delta(s, t)))

\* lastOp after a request of the given kind aimed at t and answered by r:
\*   "blockedPush"       a push, taken, toward an object that cannot move;
\*   "cut"               a Move committed while Moves were undone;
\*   "emptyUndo"         an undo, taken, with History empty;
\*   "emptyRedo"         a redo, taken, with History empty;
\*   "emptyRedoAfterCut" a redo, taken, right after a "cut".
Noted(kind, t, r) ==
    [r EXCEPT !.lastOp =
        IF kind = "push" /\ canMoveNow(Cur) /\ BlockedPush(Cur, t)
            THEN "blockedPush"
        ELSE IF kind \in {"step", "push", "walk"}
                    /\ future # <<>> /\ r.past # past
            THEN "cut"
        ELSE IF kind = "undo" /\ canMoveNow(Cur) /\ past = <<>>
                    /\ future = <<>>
            THEN "emptyUndo"
        ELSE IF kind = "redo" /\ canMoveNow(Cur) /\ future = <<>>
                    /\ lastOp = "cut"
            THEN "emptyRedoAfterCut"
        ELSE IF kind = "redo" /\ canMoveNow(Cur) /\ future = <<>>
                    /\ past = <<>>
            THEN "emptyRedo"
        ELSE "other"]

KeyKind(key, mod) ==
    IF key = "Backspace"
    THEN IF mod = "Control" THEN "redo" ELSE "undo"
    ELSE IF mod = "Control" THEN "step" ELSE "push"

KeyAim(key, mod) ==
    IF key = "Backspace" THEN NoSquare ELSE KeyTarget(Cur, key, mod # "None")

MouseKind(sq, button) ==
    IF sq # lastMousePosition_ \/ ~hasCoord(sq) THEN "other"
    ELSE CASE button = "Left" -> "walk"
           [] button = "Middle" -> "undo"
           [] button = "Right" -> "push"

WheelKind(delta) ==
    IF wheelDelta_ + delta >= 120 THEN "redo"
    ELSE IF wheelDelta_ + delta <= -120 THEN "undo" ELSE "other"

\* The bounds: History holds at most MaxHist Moves, and the counters stay
\* within MaxCount of zero.  An event that would exceed them is not taken.
Fits(s) ==
    /\ Len(s.past) + Len(s.future) <= MaxHist
    /\ Abs(s.totalMoves) <= MaxCount
    /\ Abs(s.totalPushes) <= MaxCount

----------------------------------------------------------------------------
(* The state after PlayField's constructor: a level loaded, levelChange()  *)
(* called, no player, no timer.                                            *)

Init ==
    /\ collection = 0
    /\ level \in StartLevels
    /\ completedLevels = FirstUnsolved
    /\ xpos = Collection[level + 1].token[1]
    /\ ypos = Collection[level + 1].token[2]
    /\ objects = Collection[level + 1].objects
    /\ totalMoves = 0
    /\ totalPushes = 0
    /\ past = <<>>
    /\ future = <<>>
    /\ moveSequence_ = Null
    /\ moveInProgress_ = FALSE
    /\ timers = 0
    /\ animDelay_ \in AnimChoices
    /\ lastMousePosition_ = NoSquare
    /\ wheelDelta_ = 0
    /\ build = "any"
    /\ lastEnd = Null
    /\ lastOp = "other"
    /\ bookmark = Null

\* The event whose handler computes r is taken, within the bounds.
Take(r, kind, aim) ==
    \E q \in Outcomes(r) : Fits(q) /\ Install(Noted(kind, aim, q))

KeyPress ==
    /\ Running
    /\ \E key \in Keys, mod \in Modifiers :
          Take(keyPressEvent(Begin("other"), key, mod),
               KeyKind(key, mod), KeyAim(key, mod))

MousePress ==
    /\ Running
    /\ \E sq \in MouseSquares : Install(mousePressEvent(Begin("other"), sq))

MouseRelease ==
    /\ Running
    /\ \E sq \in MouseSquares, button \in Buttons :
          Take(mouseReleaseEvent(Begin("other"), sq, button),
               MouseKind(sq, button), sq)

Wheel ==
    /\ Running
    /\ \E delta \in WheelDeltas :
          Take(wheelEvent(Begin("other"), delta), WheelKind(delta), NoSquare)

\* The undo and redo slots, as the menu calls them.
Undo == Running /\ Take(undo(Begin("other")), "undo", NoSquare)

Redo == Running /\ Take(redo(Begin("other")), "redo", NoSquare)

\* A timer started by startMoving fires.
TimerTick ==
    /\ Running
    /\ timers > 0
    /\ Take(timerEvent(Begin("other")), "other", NoSquare)

NextLevel == Running /\ Install(nextLevel(Begin("nextLevel")))

PreviousLevel == Running /\ Install(previousLevel(Begin("previousLevel")))

RestartLevel == Running /\ Install(restartLevel(Begin("other")))

ChangeAnim ==
    /\ Running
    /\ \E num \in AnimChoices : Install(changeAnim(Begin("other"), num))

ChangeCollection ==
    /\ Running
    /\ \E c \in CollectionIds : Install(changeCollection(Begin("other"), c))

\* setBookmark, within the bound on the text.
SetBookmark ==
    /\ Running
    /\ Len(HistorySave(Cur)) <= MaxSaved
    /\ Install(setBookmark(Begin("other")))

GoToBookmark ==
    /\ Running
    /\ \E bm \in Bookmarks : Install(goToBookmark(Begin("other"), bm))

\* PlayField used without bookmarks, within one collection.
Next ==
    \/ KeyPress
    \/ MousePress
    \/ MouseRelease
    \/ Wheel
    \/ Undo
    \/ Redo
    \/ TimerTick
    \/ NextLevel
    \/ PreviousLevel
    \/ RestartLevel
    \/ ChangeAnim

Spec == Init /\ [][Next]_vars

\* PlayField whose timers fire: a timer that startMoving has started comes
\* up in the event loop again and again until killTimers() removes it.
LiveSpec == Spec /\ WF_vars(TimerTick)

\* PlayField with every operation.
FullNext ==
    \/ Next
    \/ ChangeCollection
    \/ SetBookmark
    \/ GoToBookmark

FullSpec == Init /\ [][FullNext]_vars

----------------------------------------------------------------------------
(* The claims.  A claim about what a request does is stated for every      *)
(* reachable state and every request that could be made there: the         *)
(* handler's result is computed from the state at hand.                    *)

\* The targets the handlers request a run of steps toward in state s (an
\* arrow key with Control) and a run of pushes toward (an arrow key, which
\* may aim one off the edge, or a right click on a square).
StepRequests(s) == {KeyTarget(s, key, TRUE) : key \in ArrowKeys}

PushRequests(s) ==
    Squares \cup {KeyTarget(s, key, far) : key \in ArrowKeys, far \in BOOLEAN}

\* The timer fires until the playback in progress has ended.
RECURSIVE PlayOut(_)
PlayOut(s) ==
    IF s.moveInProgress_ /\ s.timers > 0 THEN PlayOut(timerEvent(s))
    ELSE s

Fresh(s) == [s EXCEPT !.lastEnd = Null]

\* The playback run since Fresh ended, and it had applied all of its Move.
Ended(s) == s.lastEnd # Null
Exhausted(s) == s.lastEnd # Null /\ The(s.lastEnd).exhausted

\* Level Map, counters, History and playback are the same in r and s.
Same(r, s) ==
    /\ MapState(r) = MapState(s)
    /\ r.past = s.past
    /\ r.future = s.future
    /\ r.moveSequence_ = s.moveSequence_
    /\ r.moveInProgress_ = s.moveInProgress_
    /\ r.timers = s.timers

\* A request that commits a Move: a run of steps or of pushes toward t, or
\* a click (press and release of the left button) on t.
CommitRequests(s) ==
    ({"step"} \X StepRequests(s)) \cup ({"push"} \X PushRequests(s))
        \cup ({"walk"} \X Squares)

Apply(s, q) ==
    CASE q[1] = "step" -> step(s, q[2])
      [] q[1] = "push" -> push(s, q[2])
      [] q[1] = "walk" -> mouseReleaseEvent(mousePressEvent(s, q[2]),
                                            q[2], "Left")

\* C1: no Move is added to History while a Move Sequence Player is active:
\* in no step of the program that starts with moveInProgress_ true does the
\* done-list grow.
C1_NoCommitDuringPlayback ==
    [][moveInProgress_ => Len(past') <= Len(past)]_vars

\* C2: the assertions of startMoving (no current player, no move in
\* progress) and of timerEvent (a move in progress) hold whenever the two
\* are entered: no run of the program fails one, whether the build then
\* aborts or passes over it.
C2_AssertionsHold == build = "any"

\* C3: an illegal elementary move mutates nothing.  A step or a push
\* requested toward a cell that is a wall, is out of bounds, or holds an
\* object with a wall, the edge or another object beyond it, leaves token,
\* objects, counters and History as they were and starts no playback.
IllegalToward(s, t) ==
    LET c == Plus(Token(s), Delta(s, t))
    IN  \/ ~hasCoord(c)
        \/ isWall(s, c)
        \/ hasObject(s, c) /\ ~empty(s, Plus(c, Delta(s, t)))

C3_IllegalMoveMutatesNothing ==
    /\ \A key \in ArrowKeys, mod \in Modifiers :
          IllegalToward(Cur, KeyAim(key, mod)) =>
              LET r == keyPressEvent(Cur, key, mod)
              IN  Same(r, Cur) /\ r.build = build
    /\ \A sq \in Squares :
          IllegalToward(Cur, sq) =>
              LET s == mousePressEvent(Cur, sq)
                  r == mouseReleaseEvent(s, sq, "Right")
              IN  Same(r, s) /\ r.build = build

\* Reached: on level 2 a push was requested, and taken, toward the object
\* on <<3, 0>>, which has the other object beyond it; nothing has moved.
C3_Witness ==
    /\ lastOp = "blockedPush"
    /\ ~moveInProgress_
    /\ level = 2
    /\ Token(Cur) = <<2, 0>>
    /\ objects = {<<3, 0>>, <<4, 0>>}
    /\ totalPushes = 2

\* C4: a legal one-cell push has exactly the stated effect.  Where moves
\* are accepted, the cell next to the token in an orthogonal direction d
\* holds an object and the cell beyond it is free, a push toward that cell
\* is played out when the request returns: the token stands in the object's
\* former cell, the object one cell further, the push counter is one more,
\* the step counter is the same, and completed() tells whether every target
\* holds an object.
C4_LegalOneCellPush ==
    \A i \in 1..4 :
        LET d == NeighbourOrder[i]
            c == Plus(Token(Cur), d)
            b == Plus(c, d)
            r == push(Fresh(Cur), c)
        IN  (canMoveNow(Cur) /\ hasObject(Cur, c) /\ empty(Cur, b)) =>
                /\ Exhausted(r)
                /\ ~r.moveInProgress_
                /\ Token(r) = c
                /\ r.objects = (objects \ {c}) \cup {b}
                /\ r.totalPushes = totalPushes + 1
                /\ r.totalMoves = totalMoves
                /\ completed(r) <=> (LevelData(r).targets \subseteq r.objects)

\* Reached: the playback of a Move of one push has just ended, on level 0,
\* with the object on the target.
C4_Witness ==
    /\ lastEnd = Some([kind |-> "play", exhausted |-> TRUE])
    /\ past # <<>>
    /\ past[Len(past)].disp = <<[d |-> <<1, 0>>, push |-> TRUE]>>
    /\ level = 0
    /\ Token(Cur) = <<2, 0>>
    /\ objects = {<<3, 0>>}
    /\ totalPushes = 1
    /\ totalMoves = 0
    /\ completed(Cur)

\* C5: undo restores the pre-move state.  For every Move a step, a push or
\* a click commits, an undo requested after the Move's playback has ended
\* brings, once the undo playback is exhausted, token, objects and both
\* counters back to what they were before the Move was requested.
C5_UndoRestoresPreMoveState ==
    canMoveNow(Cur) =>
        \A q \in CommitRequests(Cur) :
            LET s1 == PlayOut(Apply(Fresh(Cur), q))
                s2 == PlayOut(undo(Fresh(s1)))
            IN  (s1.past # past /\ Exhausted(s2)) =>
                    MapState(s2) = MapState(Cur)

\* C6: History round trip.  From the state a committed Move's first
\* playback has left, an undo played to exhaustion followed by a redo
\* played to exhaustion gives back the same Level Map (token, objects,
\* counters) and the same done-list, with an empty redo side.
C6_HistoryRoundTrip ==
    (canMoveNow(Cur) /\ lastEnd # Null /\ The(lastEnd).kind = "play"
        /\ past # <<>>) =>
        LET u == PlayOut(undo(Fresh(Cur)))
            r == PlayOut(redo(Fresh(u)))
        IN  /\ Ended(u)
            /\ Exhausted(u) =>
                  /\ Ended(r)
                  /\ Exhausted(r) =>
                        /\ MapState(r) = MapState(Cur)
                        /\ r.past = past
                        /\ r.future = <<>>

\* Reached: a redo playback has just ended with its Move applied in full.
C6_Witness ==
    /\ lastEnd = Some([kind |-> "redo", exhausted |-> TRUE])
    /\ past # <<>>
    /\ future = <<>>
    /\ Len(past[Len(past)].disp) > 1

C8_BrokenLevelNoOp ==
    ~goodLevel(Cur) =>
        /\ \A key \in Keys, mod \in Modifiers :
              Same(keyPressEvent(Cur, key, mod), Cur)
        /\ \A sq \in MouseSquares, button \in Buttons :
              Same(mouseReleaseEvent(Cur, sq, button), Cur)
        /\ \A delta \in WheelDeltas : Same(wheelEvent(Cur, delta), Cur)
        /\ Same(undo(Cur), Cur)
        /\ Same(redo(Cur), Cur)

\* C9: committing a new Move truncates the redo tail.  When Moves have been
\* undone and a step, a push or a click commits a new Move, the redo side
\* is empty afterwards, and a redo requested once the Move's playback has
\* ended changes neither the Level Map nor History.
C9_CommitTruncatesRedo ==
    (canMoveNow(Cur) /\ future # <<>>) =>
        \A q \in CommitRequests(Cur) :
            LET c == Apply(Cur, q)
                e == PlayOut(c)
            IN  c.past # past =>
                    /\ c.future = <<>>
                    /\ canMoveNow(e)
                    /\ Same(redo(e), e)

\* Reached: a Move was committed while Moves were undone, and the redo
\* requested right after it found nothing.
C9_Witness ==
    /\ lastOp = "emptyRedoAfterCut"
    /\ past # <<>>
    /\ future = <<>>
    /\ ~moveInProgress_

\* C10 as stated: undo with an empty done-list and redo with an empty redo
\* side change nothing, and when the request returns no playback is active
\* (no player, no move in progress, no timer running).
C10_EmptySideLeavesNoPlayback ==
    /\ past = <<>> =>
          LET r == undo(Cur)
          IN  /\ MapState(r) = MapState(Cur)
              /\ r.past = past /\ r.future = future
              /\ r.moveSequence_ = Null /\ ~r.moveInProgress_ /\ r.timers = 0
    /\ future = <<>> =>
          LET r == redo(Cur)
          IN  /\ MapState(r) = MapState(Cur)
              /\ r.past = past /\ r.future = future
              /\ r.moveSequence_ = Null /\ ~r.moveInProgress_ /\ r.timers = 0

\* C10, amended: an undo with an empty done-list or a redo with an empty
\* redo side, requested while moves are accepted (no playback in progress,
\* level good), changes nothing, fails no assertion, and when it returns no
\* playback is active and the next request is accepted; requested during a
\* playback or on a broken level it is ignored and changes nothing at all.
C10_EmptySideNoOp ==
    /\ past = <<>> =>
          LET r == undo(Cur)
          IN  IF canMoveNow(Cur)
              THEN /\ MapState(r) = MapState(Cur)
                   /\ r.past = past /\ r.future = future
                   /\ r.moveSequence_ = Null /\ ~r.moveInProgress_
                   /\ r.timers = 0
                   /\ r.build = build
                   /\ canMoveNow(r)
              ELSE r = Cur
    /\ future = <<>> =>
          LET r == redo(Cur)
          IN  IF canMoveNow(Cur)
              THEN /\ MapState(r) = MapState(Cur)
                   /\ r.past = past /\ r.future = future
                   /\ r.moveSequence_ = Null /\ ~r.moveInProgress_
                   /\ r.timers = 0
                   /\ r.build = build
                   /\ canMoveNow(r)
              ELSE r = Cur

\* Reached: an undo was requested, and taken, with History empty while the
\* animation is on, and no timer is left.
C10_Witness ==
    /\ lastOp = "emptyUndo"
    /\ animDelay_ # 0
    /\ past = <<>>
    /\ future = <<>>
    /\ ~moveInProgress_
    /\ timers = 0

----------------------------------------------------------------------------
(* Claims about level changes, the grid, Path Search and the shape of      *)
(* Moves.                                                                  *)

\* The level as LevelMap::level(n) loads it in the collection of s.
FreshMap(s, n) ==
    [xpos |-> Levels(s)[n + 1].token[1], ypos |-> Levels(s)[n + 1].token[2],
     objects |-> Levels(s)[n + 1].objects, totalMoves |-> 0, totalPushes |-> 0]

\* History is empty, no player is active and the map is level n as loaded.
ClearedOn(r, n) ==
    /\ r.past = <<>> /\ r.future = <<>>
    /\ r.moveSequence_ = Null /\ ~r.moveInProgress_ /\ r.timers = 0
    /\ r.level = n
    /\ MapState(r) = FreshMap(r, n)

\* C11: after nextLevel or previousLevel when they load a level, after
\* restartLevel, after changeCollection to another collection and after the
\* level load that begins goToBookmark, requested in any reachable state
\* (in the middle of a playback too), History is empty, no Move Sequence
\* Player is active and the map and counters are those of the loaded level.
C11_LevelChangeClearsHistory ==
    /\ (level + 1 < levelCount(Cur) /\ level < completedLevels)
            => ClearedOn(nextLevel(Cur), level + 1)
    /\ level > 0 => ClearedOn(previousLevel(Cur), level - 1)
    /\ ClearedOn(restartLevel(Cur), level)
    /\ \A c \in CollectionIds \ {collection} :
            /\ changeCollection(Cur, c).collection = c
            /\ ClearedOn(changeCollection(Cur, c), 0)
    /\ \A bm \in Bookmarks :
            ClearedOn(levelChange(LoadLevel(Cur, bm.level)), bm.level)

\* Reached: the collection was changed in the middle of a playback, which
\* was discarded before it had applied all of its Move.
C11_Witness ==
    /\ collection = 1
    /\ lastEnd # Null /\ ~The(lastEnd).exhausted
    /\ past = <<>> /\ future = <<>>
    /\ moveSequence_ = Null /\ ~moveInProgress_ /\ timers = 0
    /\ MapState(Cur) = FreshMap(Cur, 0)

\* The Grid of s is valid: the token is in bounds, on a cell that is neither
\* a wall nor holds an object; every object is in bounds and not on a wall;
\* as many cells hold an object as in the loaded level.
GridValid(s) ==
    /\ hasCoord(Token(s)) /\ ~isWall(s, Token(s)) /\ ~hasObject(s, Token(s))
    /\ \A o \in s.objects : hasCoord(o) /\ ~isWall(s, o)
    /\ Cardinality(s.objects) = Cardinality(LevelData(s).objects)

\* The first k displacements of Move m, applied to the map of s one after
\* the other, are all allowed by the map and leave a valid Grid.
PrefixValid(s, m, k) ==
    LET r == MoveRedo([m EXCEPT !.disp = SubSeq(@, 1, k)], s)
    IN  r # Null /\ GridValid(The(r))

\* C12: the Grid is valid in every reachable state (between two ticks of a
\* playback and after a playback was discarded too), and for every request
\* that commits a Move, every prefix of the Move's displacements, applied to
\* the Grid the request found, is allowed and gives a valid Grid.
C12_GridValid ==
    /\ GridValid(Cur)
    /\ \A q \in CommitRequests(Cur) :
          LET r == Apply(Cur, q)
          IN  (r.past # past /\ r.past # <<>>) =>
                  \A k \in 0..Len(r.past[Len(r.past)].disp) :
                      PrefixValid(Cur, r.past[Len(r.past)], k)

\* Reached: between two timer ticks of the playback of a Move of two pushes,
\* the first one applied.
C12_Witness ==
    /\ moveInProgress_ /\ moveSequence_ # Null /\ timers > 0
    /\ The(moveSequence_).pos = 1
    /\ Len(The(moveSequence_).move.disp) = 2
    /\ The(moveSequence_).move.disp[1].push
    /\ ~The(moveSequence_).undo
    /\ totalPushes = 1

\* The cells the token can reach in at most k steps over free cells, and the
\* least number of steps to t (-1 if there is no way), computed without
\* Path Search.
Adjacent(a, b) == Abs(a[1] - b[1]) + Abs(a[2] - b[2]) = 1

\* The cells of w and the free cells next to one of them.
Spread(s, w) ==
    {c : c \in w \cup {b \in Squares :
                          empty(s, b) /\ \E n \in w : Adjacent(b, n)}}

RECURSIVE WithinFrom(_, _, _)
WithinFrom(s, w, k) ==
    IF k = 0 THEN w ELSE WithinFrom(s, Spread(s, w), k - 1)

Within(s, k) == WithinFrom(s, {Token(s)}, k)

Distance(s, t) ==
    IF t \notin Within(s, Cardinality(Squares)) THEN -1
    ELSE CHOOSE k \in 0..Cardinality(Squares) :
            /\ t \in Within(s, k)
            /\ k = 0 \/ t \notin Within(s, k - 1)

\* Move m is a sealed walk of n steps and no push that leads the token of s,
\* each step allowed by the map, to t.
WalksTo(s, m, t, n) ==
    /\ m.finished
    /\ Len(m.disp) = n
    /\ \A i \in 1..n : ~m.disp[i].push /\ Abs(m.disp[i].d[1]) + Abs(m.disp[i].d[2]) = 1
    /\ MoveRedo(m, s) # Null
    /\ Token(The(MoveRedo(m, s))) = t

\* A click on sq: the left button is pressed on it (which is ignored while
\* no move is accepted) and released on it.
Click(s, sq) == mouseReleaseEvent(mousePressEvent(s, sq), sq, "Left")

IsClick(s, sq) == mousePressEvent(s, sq).lastMousePosition_ = sq

RECURSIVE NoPushAlong(_, _, _)
NoPushAlong(s, objs, n) ==
    /\ s.objects = objs
    /\ s.totalPushes = n
    /\ (s.moveInProgress_ /\ s.timers > 0)
          => NoPushAlong(timerEvent(s), objs, n)

\* C14: in every reachable state, for every left click that Path Search
\* answers with a Move, from the click until the playback it starts has
\* ended no object changes its cell and the push counter stays the same;
\* the level, too, is the same.
C14_ClickNeverPushes ==
    \A t \in Squares :
        (IsClick(Cur, t) /\ Search(Cur, t) # Null) =>
            /\ NoPushAlong(Click(Cur, t), objects, totalPushes)
            /\ PlayOut(Click(Cur, t)).level = level
            /\ PlayOut(Click(Cur, t)).collection = collection

\* Reached: between two timer ticks of a walk round the corner, started by
\* a click.
C14_Witness ==
    /\ moveInProgress_ /\ moveSequence_ # Null /\ timers > 0
    /\ The(moveSequence_).pos = 1
    /\ ~The(moveSequence_).undo
    /\ The(moveSequence_).move.disp =
          <<[d |-> <<-1, 0>>, push |-> FALSE], [d |-> <<0, 1>>, push |-> FALSE]>>
    /\ Token(Cur) = <<0, 0>>

\* Every displacement of Move m moves the token one cell along one axis.
UnitSteps(m) ==
    \A i \in 1..Len(m.disp) :
        Abs(m.disp[i].d[1]) + Abs(m.disp[i].d[2]) = 1

\* C15: every cell that step() and push() hand to Move::step or Move::push
\* is next to the Move's last recorded position, along one axis, whatever
\* the target requested; and every displacement of every Move in History or
\* being played moves the token one cell along one axis.
C15_UnitOrthogonalSteps ==
    /\ canMoveNow(Cur) =>
          /\ \A t \in StepRequests(Cur) :
                StepTrial(Cur, t).c # Token(Cur)
                    => Adjacent(Token(Cur), StepTrial(Cur, t).c)
          /\ \A t \in PushRequests(Cur) :
                PushTrial(Cur, t).c # Token(Cur) =>
                    /\ PushTrial(Cur, t).obj # Token(Cur)
                          => Adjacent(Token(Cur), PushTrial(Cur, t).obj)
                    /\ PushTrial(Cur, t).obj # PushTrial(Cur, t).c
                          => Adjacent(PushTrial(Cur, t).obj, PushTrial(Cur, t).c)
    /\ \A i \in 1..Len(past) : UnitSteps(past[i])
    /\ \A i \in 1..Len(future) : UnitSteps(future[i])
    /\ moveSequence_ # Null => UnitSteps(The(moveSequence_).move)

\* Move m pushes at most once, with its last displacement.
OnePushLast(m) ==
    \A i \in 1..Len(m.disp) : m.disp[i].push => i = Len(m.disp)

\* C16: every Move in History, done or undone, and the Move being played,
\* is a list of steps followed by at most one push, in which the object
\* moves one cell.
C16_AtMostOnePush ==
    /\ \A i \in 1..Len(past) : OnePushLast(past[i])
    /\ \A i \in 1..Len(future) : OnePushLast(future[i])
    /\ moveSequence_ # Null => OnePushLast(The(moveSequence_).move)

\* The request that led from s to r has started a playback, and r is what
\* the claim says of the no-animation path: no playback is active and the
\* player had applied every displacement of its Move.
Started(s, r) == Ended(r) \/ r.moveSequence_ # s.moveSequence_

Resolved(r) ==
    ~r.moveInProgress_ /\ r.moveSequence_ = Null /\ Exhausted(r)

\* C17: with the animation off, in every reachable state every step, push,
\* click, undo or redo request that starts a playback returns with no
\* playback active and with every displacement of the Move applied.
C17_NoAnimationResolvesFully ==
    animDelay_ = 0 =>
        /\ \A q \in CommitRequests(Cur) :
              Started(Fresh(Cur), Apply(Fresh(Cur), q))
                  => Resolved(Apply(Fresh(Cur), q))
        /\ Started(Fresh(Cur), undo(Fresh(Cur))) => Resolved(undo(Fresh(Cur)))
        /\ Started(Fresh(Cur), redo(Fresh(Cur))) => Resolved(redo(Fresh(Cur)))

----------------------------------------------------------------------------
(* Claims about bookmarks and about the two playback paths.                *)

\* goToBookmark, called in state s with the Bookmark that setBookmark fills
\* in state s.
BackTo(s) ==
    goToBookmark([setBookmark(s) EXCEPT !.lastOp = "other"],
                 The(setBookmark(s).bookmark))

\* C18: in every reachable state where the level is good (a playback may be
\* in progress), a Bookmark set there and then gone to either is reported
\* bad or gives back the token, the objects and the two counters the Level
\* Map had when it was set.
C18_BookmarkRoundTrip ==
    goodLevel(Cur) =>
        \/ BackTo(Cur).lastOp = "badBookmark"
        \/ MapState(BackTo(Cur)) = MapState(Cur)

\* bm->goTo returns false when goToBookmark is called in state s with bm.
ReplayFails(s, bm) ==
    BookmarkGoTo(levelChange(LoadLevel(s, bm.level)), bm) = Null

\* The level, the Level Map and the History are the same in r and s.
Untouched(r, s) ==
    /\ r.level = s.level
    /\ MapState(r) = MapState(s)
    /\ r.past = s.past
    /\ r.future = s.future

\* C19: in every reachable state, goToBookmark with a Bookmark whose replay
\* fails reports the bad bookmark and leaves the level index, the token,
\* the objects, the counters and the History as they were before the call.
C19_FailedReplayKeepsState ==
    \A bm \in Bookmarks :
        ReplayFails(Cur, bm) =>
            /\ goToBookmark(Cur, bm).lastOp = "badBookmark"
            /\ Untouched(goToBookmark(Cur, bm), Cur)

\* What a playback leaves when it has ended: the Level Map with its
\* counters, the History, and whether the player had applied every
\* displacement of its Move.
End(s) ==
    [map |-> MapState(s), past |-> s.past, future |-> s.future,
     lastEnd |-> s.lastEnd]

\* The playback in progress in s, one next() per timer tick: what it leaves.
Animated(s) == End(PlayOut(s))

\* What the playback in progress in s leaves when changeAnim(0) is called
\* before its next tick, or before any later one.
RECURSIVE Switched(_)
Switched(s) ==
    IF s.moveInProgress_ /\ s.timers > 0
    THEN {End(PlayOut(changeAnim(s, 0)))} \cup Switched(timerEvent(s))
    ELSE {}

\* The playback in progress in s, one next() per tick, stops at the first
\* displacement after which the level is completed, or else when every
\* displacement has been applied.
RECURSIVE StopsAtCompletion(_)
StopsAtCompletion(s) ==
    IF s.moveInProgress_ /\ s.timers > 0
    THEN ~completed(s) /\ StopsAtCompletion(timerEvent(s))
    ELSE Ended(s) => (Exhausted(s) \/ completed(s))

\* A request made in state s returns slow with the animation on and fast
\* with the animation off: if it starts a playback, the two playbacks and
\* every switched one leave the same, and stop at completion.
Equivalent(s, slow, fast) ==
    Started(s, slow) \/ Started(s, fast) =>
        /\ Animated(slow) = End(fast)
        /\ \A e \in Switched(slow) : e = End(fast)
        /\ StopsAtCompletion(slow)
        /\ Ended(fast) /\ (Exhausted(fast) \/ completed(fast))

\* The animation delays that start a timer.
AnimDelays == 1..3

\* State s with the history variables reset and the animation delay num.
Paced(s, num) == changeAnim(Fresh(s), num)

\* C20: in every reachable state, for every step, push or click request
\* and for undo and redo, the playback it starts ends with the same Level
\* Map, counters and History whether it is played one next() per timer tick
\* (animation delay 1..3), in the loop of delay 0, or with the delay set to
\* 0 by changeAnim between two ticks; each stops at the first displacement
\* after which completed() is true, with the rest of the Move unapplied.
C20_PlaybackPathsEquivalent ==
    \A num \in AnimDelays :
        /\ \A q \in CommitRequests(Cur) :
              Equivalent(Fresh(Cur), Apply(Paced(Cur, num), q),
                         Apply(Paced(Cur, 0), q))
        /\ Equivalent(Fresh(Cur), undo(Paced(Cur, num)), undo(Paced(Cur, 0)))
        /\ Equivalent(Fresh(Cur), redo(Paced(Cur, num)), redo(Paced(Cur, 0)))

\* Reached: changeAnim(0) was called in the middle of a playback of pushes
\* (the player is still there, the delay is 0), and the next tick ends it at
\* the completing displacement with a displacement of the Move left.
C20_Witness ==
    /\ animDelay_ = 0
    /\ moveInProgress_ /\ moveSequence_ # Null /\ timers > 0
    /\ The(moveSequence_).kind = "play"
    /\ completed(timerEvent(Fresh(Cur)))
    /\ ~Exhausted(timerEvent(Fresh(Cur)))
    /\ ~completed(Cur)

----------------------------------------------------------------------------
(* Claims about the agreement of History and Level Map, the end of a       *)
(* playback, the completion notice and level navigation.                   *)

\* The Moves ms from the i-th on, applied in order to the map of s: what
\* that gives, or Null if the map refuses a displacement.
RECURSIVE RedoAll(_, _, _)
RedoAll(s, ms, i) ==
    IF i > Len(ms) THEN Some(s)
    ELSE IF MoveRedo(ms[i], s) = Null THEN Null
         ELSE RedoAll(The(MoveRedo(ms[i], s)), ms, i + 1)

\* The level of s loaded afresh, with the done side of its History applied.
DoneReplayed(s) == RedoAll(LoadLevel(s, s.level), s.past, 1)

\* C21: in every reachable state with no playback active, the token, the
\* objects and the two counters of the Level Map are those the current
\* level gives when it is loaded afresh and every displacement of every
\* Move on the done side of History is applied to it in order.
C21_HistoryAgreesWithMap ==
    ~moveInProgress_ =>
        /\ DoneReplayed(Cur) # Null
        /\ MapState(The(DoneReplayed(Cur))) = MapState(Cur)

\* No playback is active, no player is left and no timer runs.
Idle == ~moveInProgress_ /\ moveSequence_ = Null /\ timers = 0

\* The ticks the playback in progress in s still takes, counted up to n.
RECURSIVE TicksLeft(_, _)
TicksLeft(s, n) ==
    IF n = 0 \/ ~(s.moveInProgress_ /\ s.timers > 0) THEN 0
    ELSE 1 + TicksLeft(timerEvent(s), n - 1)

\* The playback in progress in s ends within as many calls of next() as
\* its Move has displacements, those already made counted in.
EndsInTime(s) ==
    /\ The(s.moveSequence_).pos + TicksLeft(s, Len(The(s.moveSequence_).move.disp) + 1)
          <= Len(The(s.moveSequence_).move.disp)
    /\ LET r == PlayOut(s)
       IN  ~r.moveInProgress_ /\ r.moveSequence_ = Null /\ r.timers = 0

\* The cells of the map and those one cell outside it: the targets the
\* trial loops are tried with.
Targets == (-1..(MAX_X + 1)) \X (-1..(MAX_Y + 1))

\* The trial loops of step() and push() toward t end on a cell of the map.
LoopsEnd(s, t) ==
    /\ hasCoord(StepTrial(s, t).c)
    /\ hasCoord(PushTrial(s, t).c)

\* C22: with a timer that keeps firing, every playback in progress leads
\* to a state with no playback, no player and no timer; it does so within
\* as many calls of next() as its Move has displacements; and the trial
\* loops of step() and push() end for every target, in line with the token
\* or not.
C22_PlaybackEnds ==
    /\ [](\A t \in Targets : LoopsEnd(Cur, t))
    /\ [](moveInProgress_ /\ moveSequence_ # Null /\ timers > 0
            => EndsInTime(Cur))
    /\ (moveInProgress_ ~> Idle)

\* The playback that the request answered by r has started in state s is
\* left to the timer: if it ends with the level completed, the notice
\* "Level completed" has been issued once.
AnnouncedOnce(s, r) ==
    Started(s, r) /\ Ended(PlayOut(r)) /\ completed(PlayOut(r))
        => PlayOut(r).shown = 1

\* C23: in every reachable state, with the animation on or off, a playback
\* started by a step, push or click request or by undo or redo, and one in
\* progress, that ends with completed() true has issued "Level completed"
\* exactly once, whether the completing displacement is the last of its
\* Move or an earlier one.
C23_CompletionAnnounced ==
    /\ \A q \in CommitRequests(Cur) :
          AnnouncedOnce(Fresh(Cur), Apply(Fresh(Cur), q))
    /\ AnnouncedOnce(Fresh(Cur), undo(Fresh(Cur)))
    /\ AnnouncedOnce(Fresh(Cur), redo(Fresh(Cur)))
    /\ moveInProgress_ /\ moveSequence_ # Null /\ timers > 0
          /\ Ended(PlayOut(Fresh(Cur))) /\ completed(PlayOut(Fresh(Cur)))
          => PlayOut(Fresh(Cur)).shown = 1

\* Level n of the collection of s has been loaded: r is on it with the
\* map as the level gives it, counters at zero, History empty, no playback.
Loaded(r, s, n) ==
    /\ r.level = n
    /\ r.collection = s.collection
    /\ MapState(r) = MapState(LoadLevel(s, n))
    /\ r.past = <<>> /\ r.future = <<>>
    /\ ~r.moveInProgress_ /\ r.moveSequence_ = Null /\ r.timers = 0

\* Nothing of s has changed in r: level index, Level Map, counters,
\* History and the playback in progress.
Refused(r, s) ==
    /\ r.level = s.level
    /\ r.collection = s.collection
    /\ Same(r, s)

====
